---- MODULE Spec2Model ----
(***************************************************************************)
(* fahrenheit: a single-threaded executor with a select(2) reactor.        *)
(* The model follows src/src/lib.rs: the thread-local EventLoop (REACTOR), *)
(* its two interest registries, the wait queue, the run queue, the Token   *)
(* waker, do_spawn and run.  A future is opaque to the loop, so one poll   *)
(* of a task is a bounded, nondeterministic sequence of the calls a future *)
(* can make on the loop (add/remove interest, wake, spawn, handing its     *)
(* waker to another thread) followed by Poll::Ready or Poll::Pending.      *)
(***************************************************************************)
EXTENDS Integers, Sequences, FiniteSets, TLC

\* ---------------------------------------------------------------- bounds
MaxTasks == 3       \* task ids handed out by next_task over the thread's life
MaxSteps == 4       \* polls of one task
MaxOps == 1         \* loop calls a future makes within one poll
MaxQueue == 2       \* wakeups a future pushes on a run queue by hand
MaxExtQueue == 1    \* wakeups the second thread pushes

NumFds == 1         \* descriptors futures wait on

\* RawFd values: 0, 1, 2 are the standard streams
FDs == 3 .. (2 + NumFds)

\* "loop" is the thread that calls run; "ext" is a second thread (a timer or
\* notifier) that was handed a clone of a Waker
Threads == {"loop", "ext"}

TaskIds == 0 .. (MaxTasks - 1)

\* ---------------------------------------------------------------- values
\* a Waker built from Arc<Token>: Token(idx); owner is the thread whose
\* EventLoop::next_task made it (not a field of Token: a record of its origin)
Token(idx, owner) == [idx |-> idx, owner |-> owner]

\* no entry under a key of a BTreeMap<RawFd, Waker>
NoWaker == [idx |-> -1, owner |-> "none"]

Wakers == {Token(i, "loop") : i \in TaskIds}

\* struct Wakeup { index, waker }
Wakeup(index, waker) == [index |-> index, waker |-> waker]

VARIABLES
    read,           \* EventLoop.read: fd -> Waker (NoWaker: no key)
    write,          \* EventLoop.write
    counter,        \* EventLoop.counter
    wait_queue,     \* EventLoop.wait_queue: the TaskIds that are keys
    run_queue,      \* EventLoop.run_queue of each thread's REACTOR
    pc,             \* where the loop thread is
    stack,          \* the polls in progress, innermost last
    read_fds,       \* run's local fd_set after select
    write_fds,
    select_result,  \* what the last select(2) returned
    ext_waker,      \* the Waker clone the second thread holds
    root,           \* TaskId of the future passed to the current run
    selected,       \* select(2) was called during the current run
    status,         \* per task: "new", "polling", "pending", "done"
    polls,          \* per task: polls started
    pendings,       \* per task: polls that returned Poll::Pending
    asked,          \* per task: interests it added in its latest poll
    enqueued,       \* indexes pushed on the loop's run queue, in call order,
                    \* since the run queue was last found empty
    pass_start,     \* how many of them were pushed before the drain loop began
    pass_log        \* the wakeups the drain loop has popped since then

vars == <<read, write, counter, wait_queue, run_queue, pc, stack, read_fds,
          write_fds, select_result, ext_waker, root, selected, status, polls,
          pendings, asked, enqueued, pass_start, pass_log>>

registries == <<read, write>>
fdsets == <<read_fds, write_fds, select_result>>
passvars == <<enqueued, pass_start, pass_log>>

\* ---------------------------------------------------------------- helpers
Keys(reg) == {fd \in FDs : reg[fd] # NoWaker}

Min(S) == CHOOSE m \in S : \A x \in S : m <= x

Top == stack[Len(stack)]

Indexes(q) == [i \in 1 .. Len(q) |-> q[i].index]

Idxs(ws) == [i \in 1 .. Len(ws) |-> ws[i].idx]

\* EventLoop::new
Init ==
    /\ read = [fd \in FDs |-> NoWaker]
    /\ write = [fd \in FDs |-> NoWaker]
    /\ counter = 0
    /\ wait_queue = {}
    /\ run_queue = [t \in Threads |-> <<>>]
    /\ pc = "idle"
    /\ stack = <<>>
    /\ read_fds = {}
    /\ write_fds = {}
    /\ select_result = "none"
    /\ ext_waker = NoWaker
    /\ root = -1
    /\ selected = FALSE
    /\ status = [i \in TaskIds |-> "new"]
    /\ polls = [i \in TaskIds |-> 0]
    /\ pendings = [i \in TaskIds |-> 0]
    /\ asked = [i \in TaskIds |-> {}]
    /\ enqueued = <<>>
    /\ pass_start = 0
    /\ pass_log = <<>>

\* ------------------------------------------------------- registry methods
\* an insert that replaces the entry of a registered waiter
add_read_interest_overwrite(fd, waker) == [read EXCEPT ![fd] = waker]

add_read_interest(fd, waker) ==
    IF read[fd] = NoWaker THEN [read EXCEPT ![fd] = waker] ELSE read

\* a remove_read_interest that leaves the entry in place
remove_read_interest_kept(fd) == read

remove_read_interest(fd) == [read EXCEPT ![fd] = NoWaker]

remove_write_interest(fd) == [write EXCEPT ![fd] = NoWaker]

add_write_interest(fd, waker) ==
    IF write[fd] = NoWaker THEN [write EXCEPT ![fd] = waker] ELSE write

\* a wake that pushes at the front
wake_front(q, wakeup) == <<wakeup>> \o q

\* EventLoop::wake: push_back on the run queue q
wake(q, wakeup) == Append(q, wakeup)

\* Token::wake_by_ref called on thread t: REACTOR.with resolves to the
\* EventLoop of the calling thread
wake_by_ref(rq, t, waker) ==
    [rq EXCEPT ![t] = wake(rq[t], Wakeup(waker.idx, waker))]

\* a next_task whose Token captures the id before the one it returns
next_task_shifted ==
    <<counter, Token(IF counter > 0 THEN counter - 1 ELSE 0, "loop")>>

\* a next_task that hands out the id before the counter again
next_task_reused ==
    LET c == IF counter > 0 THEN counter - 1 ELSE 0 IN <<c, Token(c, "loop")>>

\* EventLoop::next_task on the loop thread
next_task == <<counter, Token(counter, "loop")>>

\* a stack frame of Task::poll: the key the task goes back under, the Waker
\* it is polled with, the loop calls made so far
Frame(id, waker) == [id |-> id, waker |-> waker, ops |-> 0]

CountOp == [stack EXCEPT ![Len(stack)].ops = @ + 1]

Polling == stack # <<>> /\ Top.ops < MaxOps

\* the first half of do_spawn: next_task, Task::poll entered
BeginSpawn ==
    LET nt == next_task IN
    /\ counter' = counter + 1
    /\ status' = [status EXCEPT ![nt[1]] = "polling"]
    /\ polls' = [polls EXCEPT ![nt[1]] = 1]
    /\ asked' = [asked EXCEPT ![nt[1]] = {}]

\* ---------------------------------------------------------------- run
\* run(f): self.do_spawn(f) polls the root future
Run ==
    /\ pc \in {"idle", "returned"}
    /\ counter < MaxTasks
    /\ BeginSpawn
    /\ stack' = <<Frame(next_task[1], next_task[2])>>
    /\ root' = counter
    /\ selected' = FALSE
    /\ pc' = "do_spawn"
    /\ UNCHANGED <<registries, wait_queue, run_queue, fdsets, ext_waker,
                   pendings, passvars>>

\* ------------------------------------------------ what a future does in a poll
\* REACTOR.with(|reactor| reactor.add_read_interest(fd, waker.clone()))
TaskAddReadInterest(fd) ==
    /\ Polling
    /\ read' = add_read_interest(fd, Top.waker)
    /\ asked' = [asked EXCEPT ![Top.id] = @ \cup {<<"read", fd>>}]
    /\ stack' = CountOp
    /\ UNCHANGED <<write, counter, wait_queue, run_queue, pc, fdsets,
                   ext_waker, root, selected, status, polls, pendings,
                   passvars>>

TaskAddWriteInterest(fd) ==
    /\ Polling
    /\ write' = add_write_interest(fd, Top.waker)
    /\ asked' = [asked EXCEPT ![Top.id] = @ \cup {<<"write", fd>>}]
    /\ stack' = CountOp
    /\ UNCHANGED <<read, counter, wait_queue, run_queue, pc, fdsets,
                   ext_waker, root, selected, status, polls, pendings,
                   passvars>>

TaskRemoveReadInterest(fd) ==
    /\ Polling
    /\ read' = remove_read_interest(fd)
    /\ asked' = [asked EXCEPT ![Top.id] = @ \ {<<"read", fd>>}]
    /\ stack' = CountOp
    /\ UNCHANGED <<write, counter, wait_queue, run_queue, pc, fdsets,
                   ext_waker, root, selected, status, polls, pendings,
                   passvars>>

TaskRemoveWriteInterest(fd) ==
    /\ Polling
    /\ write' = remove_write_interest(fd)
    /\ asked' = [asked EXCEPT ![Top.id] = @ \ {<<"write", fd>>}]
    /\ stack' = CountOp
    /\ UNCHANGED <<read, counter, wait_queue, run_queue, pc, fdsets,
                   ext_waker, root, selected, status, polls, pendings,
                   passvars>>

\* the future wakes itself: ctx.waker().wake_by_ref() on the loop thread
TaskWake ==
    /\ Polling
    /\ Len(run_queue["loop"]) < MaxQueue
    /\ run_queue' = wake_by_ref(run_queue, "loop", Top.waker)
    /\ enqueued' = Append(enqueued, Top.waker.idx)
    /\ stack' = CountOp
    /\ UNCHANGED <<registries, counter, wait_queue, pc, fdsets, ext_waker,
                   root, selected, status, polls, pendings, asked, pass_start,
                   pass_log>>

\* the future sends a clone of its Waker to the second thread (Waker: Send)
TaskSendWaker ==
    /\ Polling
    /\ ext_waker' = Top.waker
    /\ stack' = CountOp
    /\ UNCHANGED <<registries, counter, wait_queue, run_queue, pc, fdsets,
                   root, selected, status, polls, pendings, asked, passvars>>

\* spawn(f) from inside a poll: do_spawn polls the new future at once
TaskSpawn ==
    /\ Polling
    /\ counter < MaxTasks
    /\ BeginSpawn
    /\ stack' = Append(CountOp, Frame(next_task[1], next_task[2]))
    /\ UNCHANGED <<registries, wait_queue, run_queue, pc, fdsets, ext_waker,
                   root, selected, pendings, passvars>>

\* where the loop thread continues when the innermost poll returns
AfterPoll ==
    IF Len(stack) > 1 THEN pc
    ELSE IF pc = "do_spawn" THEN "select" ELSE "drain"

\* a poll that returns Poll::Ready and whose task is put back all the same
PollReady_kept ==
    /\ stack # <<>>
    /\ stack' = SubSeq(stack, 1, Len(stack) - 1)
    /\ wait_queue' = wait_queue \cup {Top.id}
    /\ status' = [status EXCEPT ![Top.id] = "done"]
    /\ asked' = [asked EXCEPT ![Top.id] = {}]
    /\ pc' = AfterPoll
    /\ UNCHANGED <<registries, counter, run_queue, fdsets, ext_waker, root,
                   selected, polls, pendings, passvars>>

\* Task::poll returns Poll::Ready: do_spawn returns without an insert, the
\* drain loop drops the task
PollReady ==
    /\ stack # <<>>
    /\ stack' = SubSeq(stack, 1, Len(stack) - 1)
    /\ status' = [status EXCEPT ![Top.id] = "done"]
    /\ asked' = [asked EXCEPT ![Top.id] = {}]
    /\ pc' = AfterPoll
    /\ UNCHANGED <<registries, counter, wait_queue, run_queue, fdsets,
                   ext_waker, root, selected, polls, pendings, passvars>>

\* a poll that returns Poll::Pending and whose task is not put back
PollPending_lost ==
    /\ stack # <<>>
    /\ polls[Top.id] < MaxSteps
    /\ stack' = SubSeq(stack, 1, Len(stack) - 1)
    /\ status' = [status EXCEPT ![Top.id] = "pending"]
    /\ pendings' = [pendings EXCEPT ![Top.id] = @ + 1]
    /\ pc' = AfterPoll
    /\ UNCHANGED <<registries, counter, wait_queue, run_queue, fdsets,
                   ext_waker, root, selected, polls, asked, passvars>>

\* Task::poll returns Poll::Pending: wait_queue.insert(id, task) in do_spawn,
\* wait_queue.insert(w.index, task) in the drain loop
PollPending ==
    /\ stack # <<>>
    /\ polls[Top.id] < MaxSteps
    /\ stack' = SubSeq(stack, 1, Len(stack) - 1)
    /\ wait_queue' = wait_queue \cup {Top.id}
    /\ status' = [status EXCEPT ![Top.id] = "pending"]
    /\ pendings' = [pendings EXCEPT ![Top.id] = @ + 1]
    /\ pc' = AfterPoll
    /\ UNCHANGED <<registries, counter, run_queue, fdsets, ext_waker, root,
                   selected, polls, asked, passvars>>

\* the second thread invokes the Waker it holds: REACTOR there is its own
ExtWake ==
    /\ ext_waker # NoWaker
    /\ Len(run_queue["ext"]) < MaxExtQueue
    /\ run_queue' = wake_by_ref(run_queue, "ext", ext_waker)
    /\ UNCHANGED <<registries, counter, wait_queue, pc, stack, fdsets,
                   ext_waker, root, selected, status, polls, pendings, asked,
                   passvars>>

\* ------------------------------------------------------------- the reactor
\* the Wakers of one registry whose fd is set, in key order (BTreeMap::iter
\* filtered by FD_ISSET)
RECURSIVE Woken(_, _)
Woken(reg, ready) ==
    IF ready = {} THEN <<>>
    ELSE LET fd == Min(ready) IN <<reg[fd]>> \o Woken(reg, ready \ {fd})

\* waker.wake_by_ref() for each of ws, on thread t
RECURSIVE WakeAll(_, _, _)
WakeAll(rq, t, ws) ==
    IF ws = <<>> THEN rq
    ELSE WakeAll(wake_by_ref(rq, t, Head(ws)), t, Tail(ws))

\* lines 231-250: the read registry first, then the write registry
Signalled(rs, ws) == Woken(read, rs) \o Woken(write, ws)

\* a reactor that drops the entry of each descriptor it signals
SelectReady_oneshot(rs, ws) ==
    /\ pc = "select"
    /\ rs \subseteq Keys(read)
    /\ ws \subseteq Keys(write)
    /\ rs \cup ws # {}
    /\ read_fds' = rs
    /\ write_fds' = ws
    /\ select_result' = "ready"
    /\ selected' = TRUE
    /\ run_queue' = WakeAll(run_queue, "loop", Signalled(rs, ws))
    /\ read' = [fd \in FDs |-> IF fd \in rs THEN NoWaker ELSE read[fd]]
    /\ write' = [fd \in FDs |-> IF fd \in ws THEN NoWaker ELSE write[fd]]
    /\ enqueued' = enqueued \o Idxs(Signalled(rs, ws))
    /\ pass_start' = Len(enqueued')
    /\ pass_log' = <<>>
    /\ pc' = "drain"
    /\ UNCHANGED <<counter, wait_queue, stack, ext_waker, root, status,
                   polls, pendings, asked>>

\* select returned rv > 0 with rs, ws set; the waiters are woken
SelectReady(rs, ws) ==
    /\ pc = "select"
    /\ rs \subseteq Keys(read)
    /\ ws \subseteq Keys(write)
    /\ rs \cup ws # {}
    /\ read_fds' = rs
    /\ write_fds' = ws
    /\ select_result' = "ready"
    /\ selected' = TRUE
    /\ run_queue' = WakeAll(run_queue, "loop", Signalled(rs, ws))
    /\ enqueued' = enqueued \o Idxs(Signalled(rs, ws))
    /\ pass_start' = Len(enqueued')
    /\ pass_log' = <<>>
    /\ pc' = "drain"
    /\ UNCHANGED <<registries, counter, wait_queue, stack, ext_waker, root,
                   status, polls, pendings, asked>>

\* select returned 0: the timeout, both fd_sets come back empty
SelectTimeout ==
    /\ pc = "select"
    /\ read_fds' = {}
    /\ write_fds' = {}
    /\ select_result' = "timeout"
    /\ selected' = TRUE
    /\ pass_start' = Len(enqueued)
    /\ pass_log' = <<>>
    /\ pc' = "drain"
    /\ UNCHANGED <<registries, counter, wait_queue, run_queue, stack,
                   ext_waker, root, status, polls, pendings, asked, enqueued>>

\* select returned -1 with errno e: panic!("select()")
SelectFailed(e) ==
    /\ pc = "select"
    /\ select_result' = e
    /\ selected' = TRUE
    /\ pc' = "panicked"
    /\ UNCHANGED <<registries, counter, wait_queue, run_queue, stack,
                   read_fds, write_fds, ext_waker, root, status, polls,
                   pendings, asked, passvars>>

\* ------------------------------------------------------------ the drain loop
\* run_queue.pop_front() when it is Some: the Wakeup and what is left
pop_front(q) == <<Head(q), Tail(q)>>

Draining == pc = "drain" /\ stack = <<>> /\ run_queue["loop"] # <<>>

\* a drain that polls the task while it is still a key of wait_queue
DrainStep_in_place ==
    LET w == pop_front(run_queue["loop"])[1] IN
    /\ Draining
    /\ w.index \in wait_queue
    /\ run_queue' = [run_queue EXCEPT !["loop"] = pop_front(@)[2]]
    /\ stack' = <<Frame(w.index, w.waker)>>
    /\ status' = [status EXCEPT ![w.index] = "polling"]
    /\ polls' = [polls EXCEPT ![w.index] = @ + 1]
    /\ asked' = [asked EXCEPT ![w.index] = {}]
    /\ pass_log' = Append(pass_log, [index |-> w.index, stepped |-> TRUE])
    /\ pc' = "poll"
    /\ UNCHANGED <<registries, counter, wait_queue, fdsets, ext_waker, root,
                   selected, pendings, enqueued, pass_start>>

\* pop_front gave a Wakeup whose index is a key of wait_queue: the task is
\* removed and polled with w.waker
DrainStep ==
    LET w == pop_front(run_queue["loop"])[1] IN
    /\ Draining
    /\ w.index \in wait_queue
    /\ run_queue' = [run_queue EXCEPT !["loop"] = pop_front(@)[2]]
    /\ wait_queue' = wait_queue \ {w.index}
    /\ stack' = <<Frame(w.index, w.waker)>>
    /\ status' = [status EXCEPT ![w.index] = "polling"]
    /\ polls' = [polls EXCEPT ![w.index] = @ + 1]
    /\ asked' = [asked EXCEPT ![w.index] = {}]
    /\ pass_log' = Append(pass_log, [index |-> w.index, stepped |-> TRUE])
    /\ pc' = "poll"
    /\ UNCHANGED <<registries, counter, fdsets, ext_waker, root, selected,
                   pendings, enqueued, pass_start>>

\* a drain that treats a Wakeup without a task as fatal
DrainStale_panics ==
    LET w == pop_front(run_queue["loop"])[1] IN
    /\ Draining
    /\ w.index \notin wait_queue
    /\ run_queue' = [run_queue EXCEPT !["loop"] = pop_front(@)[2]]
    /\ pass_log' = Append(pass_log, [index |-> w.index, stepped |-> FALSE])
    /\ pc' = "panicked"
    /\ UNCHANGED <<registries, counter, wait_queue, stack, fdsets,
                   ext_waker, root, selected, status, polls, pendings, asked,
                   enqueued, pass_start>>

\* pop_front gave a Wakeup whose index is not a key of wait_queue
DrainStale ==
    LET w == pop_front(run_queue["loop"])[1] IN
    /\ Draining
    /\ w.index \notin wait_queue
    /\ run_queue' = [run_queue EXCEPT !["loop"] = pop_front(@)[2]]
    /\ pass_log' = Append(pass_log, [index |-> w.index, stepped |-> FALSE])
    /\ UNCHANGED <<registries, counter, wait_queue, pc, stack, fdsets,
                   ext_waker, root, selected, status, polls, pendings, asked,
                   enqueued, pass_start>>

\* a run that returns as soon as the run queue is empty
DrainReturn_unchecked ==
    /\ pc = "drain" /\ stack = <<>>
    /\ run_queue["loop"] = <<>>
    /\ pc' = "returned"
    /\ read_fds' = {}
    /\ write_fds' = {}
    /\ select_result' = "none"
    /\ enqueued' = <<>>
    /\ pass_start' = 0
    /\ pass_log' = <<>>
    /\ UNCHANGED <<registries, counter, wait_queue, run_queue, stack,
                   ext_waker, root, selected, status, polls, pendings, asked>>

\* a run that returns as soon as no task waits, whatever is still queued
DrainReturn_early ==
    /\ pc = "drain" /\ stack = <<>>
    /\ wait_queue = {}
    /\ pc' = "returned"
    /\ read_fds' = {}
    /\ write_fds' = {}
    /\ select_result' = "none"
    /\ enqueued' = <<>>
    /\ pass_start' = 0
    /\ pass_log' = <<>>
    /\ UNCHANGED <<registries, counter, wait_queue, run_queue, stack,
                   ext_waker, root, selected, status, polls, pendings, asked>>

\* pop_front gave None and wait_queue is empty: run returns
DrainReturn ==
    /\ pc = "drain" /\ stack = <<>>
    /\ run_queue["loop"] = <<>>
    /\ wait_queue = {}
    /\ pc' = "returned"
    /\ read_fds' = {}
    /\ write_fds' = {}
    /\ select_result' = "none"
    /\ enqueued' = <<>>
    /\ pass_start' = 0
    /\ pass_log' = <<>>
    /\ UNCHANGED <<registries, counter, wait_queue, run_queue, stack,
                   ext_waker, root, selected, status, polls, pendings, asked>>

\* a drain that stops once it has popped what was queued when it began
DrainAgain_snapshot ==
    /\ pc = "drain" /\ stack = <<>>
    /\ Len(pass_log) >= pass_start
    /\ wait_queue # {}
    /\ pc' = "select"
    /\ read_fds' = {}
    /\ write_fds' = {}
    /\ select_result' = "none"
    /\ enqueued' = <<>>
    /\ pass_start' = 0
    /\ pass_log' = <<>>
    /\ UNCHANGED <<registries, counter, wait_queue, run_queue, stack,
                   ext_waker, root, selected, status, polls, pendings, asked>>

\* pop_front gave None and tasks are waiting: the next iteration, with the
\* locals of the loop body made afresh
DrainAgain ==
    /\ pc = "drain" /\ stack = <<>>
    /\ run_queue["loop"] = <<>>
    /\ wait_queue # {}
    /\ pc' = "select"
    /\ read_fds' = {}
    /\ write_fds' = {}
    /\ select_result' = "none"
    /\ enqueued' = <<>>
    /\ pass_start' = 0
    /\ pass_log' = <<>>
    /\ UNCHANGED <<registries, counter, wait_queue, run_queue, stack,
                   ext_waker, root, selected, status, polls, pendings, asked>>

Errnos == {"EINTR", "EBADF"}

Next ==
    \/ Run
    \/ \E fd \in FDs : TaskAddReadInterest(fd)
    \/ \E fd \in FDs : TaskAddWriteInterest(fd)
    \/ \E fd \in FDs : TaskRemoveReadInterest(fd)
    \/ \E fd \in FDs : TaskRemoveWriteInterest(fd)
    \/ TaskWake
    \/ TaskSpawn
    \/ PollReady
    \/ PollPending
    \/ \E rs \in SUBSET FDs, ws \in SUBSET FDs : SelectReady(rs, ws)
    \/ SelectTimeout
    \/ \E e \in Errnos : SelectFailed(e)
    \/ DrainStep
    \/ DrainStale
    \/ DrainReturn
    \/ DrainAgain

Spec == Init /\ [][Next]_vars

TypeOK ==
    /\ counter \in 0 .. MaxTasks
    /\ wait_queue \subseteq TaskIds
    /\ \A fd \in FDs : read[fd] \in Wakers \cup {NoWaker}
    /\ \A fd \in FDs : write[fd] \in Wakers \cup {NoWaker}
    /\ pc \in {"idle", "do_spawn", "select", "drain", "poll", "returned",
               "panicked"}


\* ------------------------------------------------- one root, readiness delivered
\* a poll that suspends with an interest of its own in a registry, as
\* Incoming::poll_next does before it returns Poll::Pending
PollPendingRegistered ==
    /\ stack # <<>>
    /\ \E fd \in FDs : read[fd] = Top.waker \/ write[fd] = Top.waker
    /\ PollPending

\* one call of run on a fresh EventLoop
RunOnce == pc = "idle" /\ Run

\* every step of the loop thread but the outcome of select
Progress ==
    \/ RunOnce
    \/ \E fd \in FDs : TaskAddReadInterest(fd)
    \/ \E fd \in FDs : TaskAddWriteInterest(fd)
    \/ \E fd \in FDs : TaskRemoveReadInterest(fd)
    \/ \E fd \in FDs : TaskRemoveWriteInterest(fd)
    \/ TaskWake
    \/ PollReady
    \/ PollPendingRegistered
    \/ DrainStep
    \/ DrainStale
    \/ DrainReturn
    \/ DrainAgain

Delivered == \E rs \in SUBSET FDs, ws \in SUBSET FDs : SelectReady(rs, ws)

NextFair ==
    \/ Progress
    \/ Delivered
    \/ SelectTimeout

\* the thread keeps running and select returns (its timeout is one second);
\* a descriptor that is waited on is sooner or later reported ready instead
\* of the timeout
SpecFair ==
    Init /\ [][NextFair]_vars /\ WF_vars(NextFair) /\ SF_vars(Delivered)

\* ------------------------------------------- the loop and a second thread
\* the loop thread as in Next, with futures that hand their Waker to the
\* second thread, which invokes it
NextExt ==
    \/ Next
    \/ TaskSendWaker
    \/ ExtWake

SpecExt == Init /\ [][NextExt]_vars

\* ---------------------------------------------------------------- claims
\* the tasks submitted during the current run: its root and what was spawned
RunTasks == {i \in TaskIds : root <= i /\ i < counter}

\* C1: run returns only with the wait queue empty, the root and every task
\* spawned during the run having completed, and no task suspended
C1_ReturnsWhenAllDone ==
    pc = "returned" =>
        /\ wait_queue = {}
        /\ \A i \in RunTasks : status[i] = "done"
        /\ \A i \in TaskIds : status[i] # "pending"

\* a run has returned whose root and whose spawned task had both suspended
C1_Witness ==
    /\ pc = "returned"
    /\ pendings[root] > 0
    /\ \E i \in RunTasks : i # root /\ pendings[i] > 0


\* C2: a root that suspends N times, each time with an interest registered
\* whose descriptor is later reported ready, is resumed exactly N times after
\* its first poll (N + 1 polls), and run then returns; with readiness
\* delivered, run does return
C2_ResumedPerSuspension ==
    /\ [](pc = "returned" =>
            /\ status[root] = "done"
            /\ polls[root] = pendings[root] + 1)
    /\ <>(pc = "returned")

\* run returned after a root that suspended MaxSteps - 1 times
C2_Witness ==
    /\ pc = "returned"
    /\ pendings[root] = MaxSteps - 1
    /\ polls[root] = MaxSteps


\* C3: a root that completes on its first poll, with nothing suspending, is
\* never put in the wait queue, and run returns without having called select
C3_FastPathNoSelect ==
    /\ (root \in TaskIds /\ status[root] = "done" /\ polls[root] = 1)
            => root \notin wait_queue
    /\ (pc = "returned" /\ polls[root] = 1
            /\ \A i \in RunTasks : pendings[i] = 0) => ~selected

\* C4: of the wakeups for one TaskId that are in the run queue when the
\* drain loop begins, only the first can lead to a poll; the others are stale
C4_NoDoubleStep ==
    \A i, j \in 1 .. Len(pass_log) :
        (i < j /\ j <= pass_start /\ pass_log[i].index = pass_log[j].index)
            => ~pass_log[j].stepped


\* the indexes of the wakeups a step appends to the loop's run queue
NewIndexes ==
    {run_queue'["loop"][i].index :
        i \in (Len(run_queue["loop"]) + 1) .. Len(run_queue'["loop"])}

\* the tasks that are waiting, asked for (dir, fd) in their latest poll, and
\* do not hold the entry
SecondRegistrants(dir, reg, fd) ==
    {t \in wait_queue : <<dir, fd>> \in asked[t] /\ reg[fd].idx # t}

\* C5: each (descriptor, direction) has at most one handle; an add on a pair
\* that has an entry leaves that entry in place, and when the descriptor is
\* reported ready it is the entry's task (the first registrant) that is
\* enqueued, not a later one
C5_FirstRegistrantWins ==
    [][/\ \A fd \in FDs :
            /\ (read[fd] # NoWaker /\ read'[fd] # NoWaker)
                    => read'[fd] = read[fd]
            /\ (write[fd] # NoWaker /\ write'[fd] # NoWaker)
                    => write'[fd] = write[fd]
       /\ (pc = "select" /\ pc' = "drain") =>
            NewIndexes = {read[fd].idx : fd \in read_fds'}
                            \cup {write[fd].idx : fd \in write_fds'}
      ]_vars

\* a descriptor fired on which a waiting task had registered second: the
\* wakeup carries the first registrant's index
C5_Witness ==
    /\ pc = "drain"
    /\ pass_log = <<>>
    /\ \E fd \in read_fds :
        /\ SecondRegistrants("read", read, fd) # {}
        /\ \E i \in 1 .. Len(run_queue["loop"]) :
                run_queue["loop"][i].index = read[fd].idx

\* C6: wake appends at the back and the drain consumes from the front: the
\* wakeups are popped, and their tasks polled, in the order they were pushed
C6_FifoDrain ==
    /\ Len(pass_log) <= Len(enqueued)
    /\ \A i \in 1 .. Len(pass_log) : pass_log[i].index = enqueued[i]

\* one drain has polled three different tasks
C6_Witness ==
    /\ Len(pass_log) >= 3
    /\ \E i, j, k \in 1 .. Len(pass_log) :
        /\ i < j /\ j < k
        /\ pass_log[i].stepped /\ pass_log[j].stepped /\ pass_log[k].stepped
        /\ pass_log[i].index # pass_log[j].index
        /\ pass_log[j].index # pass_log[k].index
        /\ pass_log[i].index # pass_log[k].index

\* the drain loop is about to pop a Wakeup whose task is not in wait_queue
AtStale ==
    /\ pc = "drain" /\ stack = <<>>
    /\ run_queue["loop"] # <<>>
    /\ Head(run_queue["loop"]).index \notin wait_queue

\* C7: consuming a stale Wakeup polls no task, leaves the wait queue and both
\* registries as they were, raises nothing, and the drain goes on
C7_StaleDropped ==
    [][AtStale =>
        /\ wait_queue' = wait_queue
        /\ read' = read /\ write' = write
        /\ stack' = <<>> /\ polls' = polls /\ status' = status
        /\ pc' = "drain"
        /\ run_queue'["loop"] = Tail(run_queue["loop"])
      ]_vars

\* a stale Wakeup was dropped and the drain then polled the next one's task
C7_Witness ==
    \E i \in 1 .. Len(pass_log) :
        /\ ~pass_log[i].stepped
        /\ i < Len(pass_log)
        /\ pass_log[Len(pass_log)].stepped

\* C8: a waiting task that asked for (direction, d) in its latest poll is on
\* the run queue once select has reported d ready in that direction
C8_NoLostWakeup ==
    (pc = "drain" /\ stack = <<>> /\ pass_log = <<>>
        /\ select_result = "ready") =>
        \A t \in wait_queue :
            /\ \A fd \in read_fds :
                <<"read", fd>> \in asked[t]
                    => \E i \in 1 .. Len(run_queue["loop"]) :
                            run_queue["loop"][i].index = t
            /\ \A fd \in write_fds :
                <<"write", fd>> \in asked[t]
                    => \E i \in 1 .. Len(run_queue["loop"]) :
                            run_queue["loop"][i].index = t

\* C9: a Wakeup is on the run queue of the loop whose next_task made its
\* handle, whichever thread invoked the handle
C9_WakeupOnOwnersQueue ==
    \A t \in Threads :
        \A i \in 1 .. Len(run_queue[t]) : run_queue[t][i].waker.owner = t

\* C10: select failing with anything but an interruption aborts the loop at
\* once; an interruption or a timeout does not: the loop goes on to the drain
C10_OnlyFatalErrorsAbort ==
    /\ select_result = "EBADF" => pc = "panicked"
    /\ select_result \in {"EINTR", "timeout"} => pc \in {"drain", "poll"}


\* the tasks whose poll has been entered and has not returned
Stepping == {stack[i].id : i \in 1 .. Len(stack)}

\* C11: at most one task is being stepped at any time, also while a step
\* calls spawn
C11_OneTaskStepping ==
    /\ Cardinality(Stepping) <= 1
    /\ Cardinality({t \in TaskIds : status[t] = "polling"}) <= 1

\* C12: a task that is being stepped is not a key of the wait queue, and a
\* poll that returns Pending puts the task back under the TaskId it was
\* taken out (or submitted) under, and nothing else
C12_RemovedWhileStepped ==
    [][/\ \A i \in 1 .. Len(stack') : stack'[i].id \notin wait_queue'
       /\ wait_queue' \ wait_queue # {} =>
            /\ stack # <<>>
            /\ wait_queue' = wait_queue \cup {Top.id}
            /\ stack' = SubSeq(stack, 1, Len(stack) - 1)
      ]_vars

\* the drain has taken out, for the second time, a task that went back in
C12_Witness ==
    /\ pc = "poll"
    /\ stack # <<>>
    /\ Top.id \notin wait_queue
    /\ pendings[Top.id] >= 2
    /\ polls[Top.id] >= 3


\* C13: signalling readiness changes no registry entry and pushes one Wakeup
\* for each descriptor reported ready; an entry goes away only in a call of
\* remove_read_interest / remove_write_interest
C13_SignalKeepsRegistry ==
    [][/\ pc = "select" => (read' = read /\ write' = write)
       /\ (pc = "select" /\ pc' = "drain") =>
            Len(run_queue'["loop"]) =
                Len(run_queue["loop"]) + Cardinality(read_fds')
                    + Cardinality(write_fds')
       /\ \A fd \in FDs :
            /\ (read[fd] # NoWaker /\ read'[fd] = NoWaker)
                    => TaskRemoveReadInterest(fd)
            /\ (write[fd] # NoWaker /\ write'[fd] = NoWaker)
                    => TaskRemoveWriteInterest(fd)
      ]_vars

\* a descriptor was reported ready, its Wakeup was consumed, and its entry
\* is still the one that was signalled
C13_Witness ==
    /\ pc = "drain"
    /\ Len(pass_log) >= 1
    /\ \E fd \in read_fds :
        /\ read[fd] # NoWaker
        /\ pass_log[1].index = read[fd].idx
        /\ pass_log[1].stepped

\* C14: once a poll of task t has returned Ready, t is never polled again:
\* it stays done and out of the wait queue, and a Wakeup with its index,
\* however many there are, starts no poll
C14_NoPollAfterReady ==
    [][/\ \A t \in TaskIds :
            status[t] = "done" =>
                /\ status'[t] = "done"
                /\ polls'[t] = polls[t]
                /\ t \notin wait_queue'
       /\ (/\ pc = "drain" /\ stack = <<>>
           /\ run_queue["loop"] # <<>>
           /\ Head(run_queue["loop"]).index \in TaskIds
           /\ status[Head(run_queue["loop"]).index] = "done")
                => (stack' = <<>> /\ polls' = polls)
      ]_vars

\* two Wakeups for a task that had completed were consumed in one drain
C14_Witness ==
    \E i, j \in 1 .. Len(pass_log) :
        /\ i < j
        /\ pass_log[i].index = pass_log[j].index
        /\ status[pass_log[i].index] = "done"
        /\ ~pass_log[i].stepped
        /\ ~pass_log[j].stepped


\* C15: when no poll is in progress, the keys of the wait queue are the
\* tasks whose latest poll returned Pending
C15_WaitQueueIsPending ==
    stack = <<>> =>
        \A t \in TaskIds : t \in wait_queue <=> status[t] = "pending"

\* between polls: a task that went back in twice is waiting, and a task that
\* had waited and then completed is not
C15_Witness ==
    /\ stack = <<>>
    /\ pc = "drain"
    /\ \E t \in wait_queue : pendings[t] >= 2
    /\ \E u \in TaskIds :
        status[u] = "done" /\ pendings[u] >= 1 /\ u \notin wait_queue

\* every TaskId the loop holds or has handed out
UsedIds ==
    wait_queue \cup Stepping
        \cup {run_queue["loop"][i].index : i \in 1 .. Len(run_queue["loop"])}
        \cup {read[fd].idx : fd \in Keys(read)}
        \cup {write[fd].idx : fd \in Keys(write)}
        \cup {t \in TaskIds : status[t] # "new"}

\* a step in which do_spawn enters the first poll of a new task
Submitting == Len(stack') = Len(stack) + 1 /\ pc # "drain"

\* C16: the counter never goes back, over successive runs too; each submit
\* gets the next id, above every id handed out before and every id a task,
\* a Wakeup or a registry entry still carries
C16_TaskIdsIncrease ==
    [][/\ counter' >= counter
       /\ Submitting =>
            /\ counter' = counter + 1
            /\ Top'.id = counter
            /\ \A u \in UsedIds : u < Top'.id
       /\ \A u \in UsedIds' : u < counter'
      ]_vars

\* a later run submits its root while a registry entry of a task of an
\* earlier run is still there
C16_Witness ==
    /\ pc = "do_spawn"
    /\ root >= 1
    /\ stack # <<>> /\ Top.id = root
    /\ \E fd \in Keys(read) : read[fd].idx < root


\* C17: what was pushed on the run queue is what the drain has popped
\* followed by what is still queued, each Wakeup once; and when run has
\* returned both the run queue and the wait queue are empty
C17_ConsumedOnce ==
    /\ Indexes(pass_log) \o Indexes(run_queue["loop"]) = enqueued
    /\ pc \in {"idle", "returned"} => run_queue["loop"] = <<>>
    /\ pc = "returned" => wait_queue = {}

\* no task waits any more, one Wakeup has been consumed and another is still
\* queued: the drain goes on before the termination check
C17_Witness ==
    /\ pc = "drain" /\ stack = <<>>
    /\ selected
    /\ wait_queue = {}
    /\ Len(pass_log) >= 1
    /\ run_queue["loop"] # <<>>

\* C18: a remove clears the entry of its descriptor and direction whoever
\* owns it, changes nothing when there is none, leaves the other registry
\* and both queues alone; an add on a cleared pair registers the caller
C18_RemoveClears ==
    [][\A fd \in FDs :
        /\ TaskRemoveReadInterest(fd) =>
            /\ read'[fd] = NoWaker
            /\ \A g \in FDs \ {fd} : read'[g] = read[g]
            /\ read[fd] = NoWaker => read' = read
            /\ write' = write
            /\ wait_queue' = wait_queue /\ run_queue' = run_queue
        /\ TaskRemoveWriteInterest(fd) =>
            /\ write'[fd] = NoWaker
            /\ \A g \in FDs \ {fd} : write'[g] = write[g]
            /\ write[fd] = NoWaker => write' = write
            /\ read' = read
            /\ wait_queue' = wait_queue /\ run_queue' = run_queue
        /\ (TaskAddReadInterest(fd) /\ read[fd] = NoWaker) =>
            read'[fd] = Top.waker
        /\ (TaskAddWriteInterest(fd) /\ write[fd] = NoWaker) =>
            write'[fd] = Top.waker
      ]_vars

\* select reported one descriptor and the one Wakeup it pushed names the
\* owner of the entry; the owner, resumed, spawned a task, and the one call
\* of the new task's first poll has left the entry empty: the new task
\* removed an entry it had not registered
C18_Witness ==
    \E fd \in FDs :
        /\ pc = "poll"
        /\ Len(stack) = 2
        /\ read_fds = {fd} /\ write_fds = {}
        /\ enqueued = <<stack[1].id>>
        /\ pass_start = 1
        /\ Len(pass_log) = 1
        /\ polls[Top.id] = 1
        /\ Top.ops = 1
        /\ read[fd] = NoWaker

\* C19: every poll is given the Token of the task it polls, every Wakeup
\* carries the index of its Token, and a registry entry made or a Wakeup
\* pushed during a poll carries the id of the task being polled
C19_HandleAgrees ==
    [][/\ \A i \in 1 .. Len(stack') : stack'[i].waker.idx = stack'[i].id
       /\ \A i \in 1 .. Len(run_queue'["loop"]) :
            run_queue'["loop"][i].index = run_queue'["loop"][i].waker.idx
       /\ \A fd \in FDs :
            /\ (read'[fd] # read[fd] /\ read'[fd] # NoWaker) =>
                    stack # <<>> /\ read'[fd].idx = Top.id
            /\ (write'[fd] # write[fd] /\ write'[fd] # NoWaker) =>
                    stack # <<>> /\ write'[fd].idx = Top.id
       /\ (pc # "select" /\ Len(run_queue'["loop"]) > Len(run_queue["loop"]))
            => /\ stack # <<>>
               /\ run_queue'["loop"][Len(run_queue'["loop"])].index = Top.id
      ]_vars

\* a spawned task is being resumed by the drain, for at least its third
\* poll, with its own Token
C19_Witness ==
    /\ pc = "poll"
    /\ Len(stack) = 1
    /\ Top.id > root
    /\ polls[Top.id] >= 3
    /\ Top.waker = Token(Top.id, "loop")
    /\ Top.ops = 1
    /\ \E fd \in FDs : read[fd] = Top.waker

\* C20: the drain loop is left, for select or for the return, only with the
\* run queue empty and every Wakeup pushed so far popped, those pushed
\* during the drain included
C20_DrainUntilEmpty ==
    [][(pc = "drain" /\ pc' \in {"select", "returned"}) =>
            /\ run_queue["loop"] = <<>>
            /\ Len(pass_log) = Len(enqueued)
            /\ Indexes(pass_log) = enqueued
      ]_vars

\* the drain has emptied the queue and a Wakeup pushed after the drain began
\* has resumed its task in it
C20_Witness ==
    /\ pc = "drain" /\ stack = <<>>
    /\ run_queue["loop"] = <<>>
    /\ pass_start >= 1
    /\ \E i \in 1 .. Len(pass_log) : i > pass_start /\ pass_log[i].stepped

====
